---- MODULE Spec2Model ----
\* Color Run (src/src/components/GameCanvas.tsx): the per-frame simulation
\* engine of the GameCanvas component, its session state machine
\* (Title -> Playing -> GameOver -> reset), the frame continuation
\* (requestAnimationFrame), the deferred game-over callback (setTimeout) and
\* the effect that sets the engine up and tears it down.
\*
\* Numbers.  The source computes positions and speeds in floating point
\* (0.6, 3 * 1.08, -12 * 1.4).  Here every length and speed is an integer
\* count of hundredths of a pixel, px(n) being n pixels, so that all of the
\* source's amounts are exact; the rounding of binary floating point is
\* not modelled.  The constants carry the source's values.
EXTENDS Integers, Sequences, FiniteSets, TLC

\* ------------------------------------------------------------------ bounds
\* frames (gameLoop runs) explored after the engine is constructed or after
\* a replayed run
MaxSteps == 6
\* resets (resetGame calls) before which a viewport change is considered
MaxResets == 1
\* stretches (of 32 steps) of a replayed run
MaxReplay == 112

px(n) == n * 100

\* ----------------------------------------------------------- GAME_CONFIG
CANVAS_WIDTH == 400
CANVAS_HEIGHT == 600
\* COLORS: the palette, by index ("#ff4757" is 1)
NUM_COLORS == 5
COLORS == 1..NUM_COLORS
PLAYER_X == 100
PLAYER_Y == 300
PLAYER_RADIUS == 20
\* GRAVITY: 0.6
GRAVITY == px(6) \div 10
JUMP_POWER == px(-12)
OBSTACLE_WIDTH == 30
OBSTACLE_HEIGHT == 60
BASE_SPEED == 3
SPAWN_INTERVAL == 70
DURATION == 300
\* SPEED_INCREASE_RATE: 0.08, in hundredths
SPEED_INCREASE_RATE == 8
\* MAX_SPEED_MULTIPLIER: 2.5, in tenths
MAX_SPEED_MULTIPLIER == 25
COMBO_TIMEOUT == 600
\* the literals of the source that the claims are about
INVINCIBLE == 120
POWERUP_SPAWN_AFTER == 200
PARTICLE_LIFE == 30
MAX_LIVES == 3
MAX_JUMPS == 2
FLOOR_HEIGHT == 20
POWERUP_Y == 350
POWERUP_RADIUS == 15
\* setTimeout(..., 100): the frames of a 60 Hz display in 100 ms
TIMEOUT_FRAMES == 6

\* window.innerWidth and window.innerHeight on a phone (innerWidth <= 768)
PhoneWindow == [innerWidth |-> 375, innerHeight |-> 667]

ObstacleTypes == {"normal", "bonus", "tall"}
PowerUpTypes == {"shield", "bonus", "life", "jumpBoost"}

Min(a, b) == IF a < b THEN a ELSE b

\* ------------------------------------------------------------- ScoreStore
\* localStorage holds strings: score.toString() on the way in, parseInt on
\* the way out.  A string is a sequence of decimal digits; <<>> is "no item".
RECURSIVE toString(_)
toString(n) == IF n < 10 THEN <<n>> ELSE Append(toString(n \div 10), n % 10)

RECURSIVE parseInt(_)
parseInt(s) ==
  IF Len(s) = 0 THEN 0
  ELSE 10 * parseInt(SubSeq(s, 1, Len(s) - 1)) + s[Len(s)]

VARIABLES gameState, timers, raf, timeouts, storage, isMobile, canvas,
          log, last, steps, resets, maxBest, sinceLoss

vars == <<gameState, timers, raf, timeouts, storage, isMobile, canvas,
          log, last, steps, resets, maxBest, sinceLoss>>

\* getBestScore with the stored score ignored
getBestScoreUnset(store) == 0

\* getBestScore: parseInt(localStorage.getItem(key) || "0") (isClient is
\* true from the first run of the effect on, the canvas being rendered only
\* then)
getBestScore(store) == parseInt(IF store = <<>> THEN <<0>> ELSE store)

\* saveBestScore: localStorage.setItem(key, score.toString())
saveBestScore(store, score) == toString(score)

createInitialGameState(store) ==
  [ player |-> [ x |-> px(PLAYER_X), y |-> px(PLAYER_Y),
                 radius |-> px(PLAYER_RADIUS),
                 vy |-> 0, color |-> 1, isJumping |-> FALSE, jumpCount |-> 0,
                 shield |-> 0, jumpBoost |-> 0, lives |-> MAX_LIVES,
                 invincible |-> 0 ],
    obstacles |-> <<>>,
    powerUps |-> <<>>,
    particles |-> <<>>,
    score |-> 0,
    combo |-> 0,
    comboTimer |-> 0,
    bestScore |-> getBestScore(store),
    level |-> 1,
    isGameOver |-> FALSE,
    colorChangeOnNextObstacle |-> FALSE,
    backgroundOffset |-> 0,
    gameStarted |-> FALSE ]

InitialTimers == [spawn |-> 0, colorChange |-> 0, powerUpSpawn |-> 0]

\* createParticles: count particles of full life are pushed (their position,
\* velocity, colour and size are drawn only).
createParticles(g, count) ==
  [g EXCEPT !.particles = @ \o [k \in 1..count |-> PARTICLE_LIFE]]

\* ------------------------------------------------ frame requests, timers
\* raf.pending frame callbacks wait for the next display refresh, oldest
\* first; raf.ref is the place in that queue of the request whose id
\* requestRef.current holds (0: that request has run or was cancelled).
requestAnimationFrame(r) == [pending |-> r.pending + 1, ref |-> r.pending + 1]

cancelAnimationFrame(r) ==
  IF r.ref > 0 THEN [pending |-> r.pending - 1, ref |-> 0] ELSE r

\* the oldest request is taken off the queue to run
TakeFrame(r) ==
  [pending |-> r.pending - 1, ref |-> IF r.ref > 0 THEN r.ref - 1 ELSE 0]

\* updateCanvasSize
updateCanvasSize(mobile) ==
  IF mobile
  THEN [width |-> px(Min(PhoneWindow.innerWidth - 20, 380)),
        height |-> px(Min(PhoneWindow.innerHeight - 200, 500))]
  ELSE [width |-> px(CANVAS_WIDTH), height |-> px(CANVAS_HEIGHT)]

Init ==
  /\ storage = <<>>
  /\ gameState = createInitialGameState(<<>>)
  /\ timers = InitialTimers
  /\ raf = requestAnimationFrame([pending |-> 0, ref |-> 0])
  /\ timeouts = <<>>
  /\ isMobile = FALSE
  /\ canvas = updateCanvasSize(FALSE)
  /\ log = <<>>
  /\ last = [op |-> "effect", g |-> createInitialGameState(<<>>),
             t |-> InitialTimers, s |-> INVINCIBLE]
  /\ steps = 0
  /\ resets = 0
  /\ maxBest = 0
  /\ sinceLoss = INVINCIBLE

\* --------------------------------------------------------------- handleJump
startGame(g) == [g EXCEPT !.gameStarted = TRUE]

\* jump without the limit of two jumps
jumpUnlimited(g) ==
  createParticles([g EXCEPT !.player.vy = JUMP_POWER,
                            !.player.isJumping = TRUE,
                            !.player.jumpCount = @ + 1], 5)

\* the jump with the same impulse whether or not jumpBoost is active
jumpWithoutBoost(g) ==
  IF g.player.jumpCount < MAX_JUMPS
  THEN createParticles([g EXCEPT !.player.vy = JUMP_POWER,
                                 !.player.isJumping = TRUE,
                                 !.player.jumpCount = @ + 1], 5)
  ELSE g

\* the jump itself: lines 274-297 of handleJump
jump(g) ==
  LET player == g.player IN
  IF player.jumpCount < MAX_JUMPS
  THEN LET jumpPower == IF player.jumpBoost > 0
                        THEN (JUMP_POWER * 14) \div 10
                        ELSE JUMP_POWER
           g1 == [g EXCEPT !.player.vy = jumpPower,
                           !.player.isJumping = TRUE,
                           !.player.jumpCount = @ + 1]
           particleCount == IF g1.player.jumpCount = 2 THEN 8 ELSE 5
       IN createParticles(g1, particleCount)
  ELSE g

\* handleJump without the isGameOver guard of line 272
handleJumpInAnyState(g) ==
  IF ~g.gameStarted THEN startGame(g) ELSE jump(g)

\* handleJump without the return of line 269 after startGame
handleJumpStartsJumping(g) ==
  IF ~g.gameStarted THEN jump(startGame(g))
  ELSE IF g.isGameOver THEN g
  ELSE jump(g)

handleJump(g) ==
  IF ~g.gameStarted THEN startGame(g)
  ELSE IF g.isGameOver THEN g
  ELSE jump(g)

\* ----------------------------------------------------------- checkCollision
obstacleHeightOf(obstacle) ==
  IF obstacle.type = "tall" THEN (px(OBSTACLE_HEIGHT) * 18) \div 10
  ELSE px(OBSTACLE_HEIGHT)

\* the through-body test before the jump test
checkCollisionHitFirst(player, obstacle, cv) ==
  LET obstacleTop == cv.height - obstacleHeightOf(obstacle) - px(FLOOR_HEIGHT)
      obstacleBottom == cv.height - px(FLOOR_HEIGHT)
      xOverlap == /\ obstacle.x < player.x + player.radius
                  /\ obstacle.x + px(OBSTACLE_WIDTH) > player.x - player.radius
  IN IF ~xOverlap THEN [hit |-> FALSE, type |-> "pass"]
     ELSE IF /\ player.y + player.radius > obstacleTop
             /\ player.y - player.radius < obstacleBottom
       THEN [hit |-> TRUE, type |-> "pass"]
     ELSE IF player.y + player.radius <= obstacleTop + px(5)
       THEN [hit |-> FALSE, type |-> "jump"]
     ELSE [hit |-> FALSE, type |-> "pass"]

\* lines 301-339
checkCollision(player, obstacle, cv) ==
  LET obstacleTop == cv.height - obstacleHeightOf(obstacle) - px(FLOOR_HEIGHT)
      obstacleBottom == cv.height - px(FLOOR_HEIGHT)
      xOverlap == /\ obstacle.x < player.x + player.radius
                  /\ obstacle.x + px(OBSTACLE_WIDTH) > player.x - player.radius
  IN IF ~xOverlap THEN [hit |-> FALSE, type |-> "pass"]
     ELSE IF player.y + player.radius <= obstacleTop + px(5)
       THEN [hit |-> FALSE, type |-> "jump"]
     ELSE IF /\ player.y + player.radius > obstacleTop
             /\ player.y - player.radius < obstacleBottom
       THEN [hit |-> TRUE, type |-> "pass"]
     ELSE [hit |-> FALSE, type |-> "pass"]

Abs(n) == IF n < 0 THEN -n ELSE n

\* sqrt(dx^2 + dy^2) < player.radius + 15, compared as squares (a side as
\* long as the sum of the radii decides it before the squares are taken)
checkPowerUpCollision(player, powerUp) ==
  LET dx == player.x - (powerUp.x + px(POWERUP_RADIUS))
      dy == player.y - powerUp.y
      r == player.radius + px(POWERUP_RADIUS)
  IN /\ Abs(dx) < r
     /\ Abs(dy) < r
     /\ dx * dx + dy * dy < r * r

\* ------------------------------------------------- gameLoop: one obstacle
\* w is the engine during a gameLoop run: g (gameStateRef.current), raf,
\* timeouts, storage, and two notes of the run: saves (setItem calls so far)
\* and returned (the forEach callback returned early for this obstacle).

\* the same-colour pass-through without the !obstacle.passed guard
sameColorPassAgain(w, i) ==
  [w EXCEPT !.g = [w.g EXCEPT !.score = @ + 10, !.combo = @ + 1,
                              !.comboTimer = COMBO_TIMEOUT,
                              !.obstacles[i].passed = TRUE]]

\* the same-colour pass-through without the combo bonus
sameColorPassFlat(w, i) ==
  LET g == w.g
      obstacle == g.obstacles[i]
  IN IF obstacle.passed THEN w
     ELSE [w EXCEPT !.g = [g EXCEPT
             !.score = @ + (IF obstacle.type = "bonus" THEN 20
                            ELSE IF obstacle.type = "tall" THEN 15 ELSE 10),
             !.combo = @ + 1,
             !.comboTimer = COMBO_TIMEOUT,
             !.obstacles[i].passed = TRUE]]

\* lines 666-687: same-colour pass-through
sameColorPass(w, i) ==
  LET g == w.g
      obstacle == g.obstacles[i]
  IN IF obstacle.passed THEN w
     ELSE LET baseScore == IF obstacle.type = "bonus" THEN 20
                           ELSE IF obstacle.type = "tall" THEN 15 ELSE 10
              comboBonus == (g.combo \div 5) * 5
              totalScore == baseScore + comboBonus
              g1 == [g EXCEPT !.score = @ + totalScore,
                              !.combo = @ + 1,
                              !.comboTimer = COMBO_TIMEOUT,
                              !.obstacles[i].passed = TRUE]
          IN [w EXCEPT !.g = createParticles(g1, 10)]

\* the shield taking the hit with a point for every hit
shieldBreakScoresAgain(w, i) ==
  [w EXCEPT !.g = [w.g EXCEPT !.player.shield = 0, !.combo = 0,
                              !.comboTimer = 0, !.score = @ + 1,
                              !.obstacles[i].passed = TRUE]]

\* lines 698-706: the shield takes the hit
shieldBreak(w, i) ==
  LET g == w.g
      g1 == createParticles([g EXCEPT !.player.shield = 0], 12)
      g2 == [g1 EXCEPT !.combo = 0, !.comboTimer = 0]
      g3 == IF ~g.obstacles[i].passed
            THEN [g2 EXCEPT !.score = @ + 1, !.obstacles[i].passed = TRUE]
            ELSE g2
  IN [w EXCEPT !.g = g3]

\* the game over without the best score
gameOverKeepsBest(w) ==
  [w EXCEPT !.g.isGameOver = TRUE,
            !.raf = cancelAnimationFrame(@),
            !.timeouts = Append(@, 0),
            !.returned = TRUE]

\* lines 715-731: the last life is gone
gameOver(w) ==
  LET g == w.g
      improved == g.score > g.bestScore
  IN [w EXCEPT
        !.g = [g EXCEPT !.isGameOver = TRUE,
                        !.bestScore = IF improved THEN g.score ELSE @],
        !.storage = IF improved THEN saveBestScore(@, g.score) ELSE @,
        !.saves = IF improved THEN @ + 1 ELSE @,
        !.raf = cancelAnimationFrame(@),
        !.timeouts = Append(@, 0),
        !.returned = TRUE]

\* lines 708-731: a life is lost
loseLife(w, i) ==
  LET g == w.g
      g1 == [g EXCEPT !.player.lives = @ - 1, !.player.invincible = INVINCIBLE]
      g2 == createParticles(g1, 15)
      g3 == [g2 EXCEPT !.combo = 0, !.comboTimer = 0]
      w1 == [w EXCEPT !.g = g3]
  IN IF g3.player.lives <= 0 THEN gameOver(w1) ELSE w1

\* the different-colour pass-through without the invincibility guard of
\* line 696
differentColorHitAlways(w, i) ==
  IF w.g.player.shield > 0 THEN shieldBreak(w, i) ELSE loseLife(w, i)

\* lines 696-733: different-colour pass-through
differentColorHit(w, i) ==
  IF w.g.player.invincible <= 0
  THEN IF w.g.player.shield > 0 THEN shieldBreak(w, i) ELSE loseLife(w, i)
  ELSE w

\* the jump-over without the !obstacle.passed guard
jumpOverAgain(w, i) ==
  [w EXCEPT !.g = [w.g EXCEPT !.score = @ + 1, !.obstacles[i].passed = TRUE]]

\* a jump-over that ends the combo
jumpOverEndsCombo(w, i) ==
  [w EXCEPT !.g = [w.g EXCEPT !.combo = 0,
                              !.score = IF w.g.obstacles[i].passed THEN @ ELSE @ + 1,
                              !.obstacles[i].passed = TRUE]]

\* a jump-over that gives one point for every type of obstacle
jumpOverFlat(w, i) ==
  [w EXCEPT !.g = [w.g EXCEPT !.score = IF w.g.obstacles[i].passed THEN @ ELSE @ + 1,
                              !.obstacles[i].passed = TRUE]]

\* lines 741-748: jumped over
jumpOver(w, i) ==
  LET g == w.g
      obstacle == g.obstacles[i]
  IN IF obstacle.passed THEN w
     ELSE LET baseScore == IF obstacle.type = "tall" THEN 2 ELSE 1
          IN [w EXCEPT !.g = [g EXCEPT !.score = @ + baseScore,
                                       !.obstacles[i].passed = TRUE]]

\* lines 752-767: the colour-change roll, once the obstacle is behind
colorChangeRoll(w, i, roll) ==
  LET g == w.g
      obstacle == g.obstacles[i]
      player == g.player
  IN IF /\ obstacle.passed
        /\ obstacle.x + px(OBSTACLE_WIDTH) < player.x - player.radius - px(10)
        /\ ~obstacle.colorChanged
     THEN LET g1 == IF player.color = obstacle.color /\ roll
                    THEN [g EXCEPT !.colorChangeOnNextObstacle = TRUE]
                    ELSE g
          IN [w EXCEPT !.g = [g1 EXCEPT !.obstacles[i].colorChanged = TRUE]]
     ELSE w

\* what the claims read of one obstacle's turn in the loop
Snap(g, obstacle) ==
  [ score |-> g.score, combo |-> g.combo, comboTimer |-> g.comboTimer,
    lives |-> g.player.lives, shield |-> g.player.shield,
    jumpBoost |-> g.player.jumpBoost,
    invincible |-> g.player.invincible, bestScore |-> g.bestScore,
    isGameOver |-> g.isGameOver, passed |-> obstacle.passed,
    flag |-> g.colorChangeOnNextObstacle ]

\* line 594 (and the start of the callback: nothing has returned yet)
moveObstacle(w, i, currentSpeed) ==
  [w EXCEPT !.g.obstacles[i].x = @ - currentSpeed, !.returned = FALSE]

\* lines 661-665, 690-694, 736-740: which branch takes the obstacle
branchOf(collision, player, obstacle) ==
  IF collision.hit /\ collision.type = "pass" /\ player.color = obstacle.color
  THEN "same"
  ELSE IF collision.hit /\ collision.type = "pass"
          /\ player.color # obstacle.color
  THEN "diff"
  ELSE IF /\ collision.type = "jump"
          /\ obstacle.x < player.x
          /\ obstacle.x + px(OBSTACLE_WIDTH) > player.x
  THEN "jump"
  ELSE "none"

kindOf(g, i) ==
  branchOf(checkCollision(g.player, g.obstacles[i], canvas), g.player,
           g.obstacles[i])

\* lines 658-749
collide(w, i, kind) ==
  IF kind = "same" THEN sameColorPass(w, i)
  ELSE IF kind = "diff" THEN differentColorHit(w, i)
  ELSE IF kind = "jump" THEN jumpOver(w, i)
  ELSE w

\* lines 751-767, which the return of line 730 skips
rollUnlessReturned(w, i, roll) ==
  IF w.returned THEN w ELSE colorChangeRoll(w, i, roll)

\* the branch that marked the obstacle passed in this turn, or what is
\* noted of earlier turns
passedByAfter(before, after, i, kind) ==
  IF ~before.g.obstacles[i].passed /\ after.g.obstacles[i].passed
  THEN kind ELSE before.g.obstacles[i].passedBy

\* scored, everPassed, passedBy and tookShield are history fields of the
\* obstacle (the frames in which it added to the score; whether passed was
\* ever seen true; the branch that marked it passed; whether it consumed
\* the shield), and the turn is noted in the log: before is the engine when
\* the obstacle has moved, after the engine at the end of its turn (a turn
\* in which no branch is taken and the colour roll sets nothing is not
\* noted).  The turn's by is passedBy after the turn, its tookShield the
\* field before it.
noteTurn(before, after, i, kind) ==
  [after EXCEPT
     !.g.obstacles[i].scored =
        IF after.g.score # before.g.score THEN @ + 1 ELSE @,
     !.g.obstacles[i].everPassed =
        @ \/ before.g.obstacles[i].passed \/ after.g.obstacles[i].passed,
     !.g.obstacles[i].passedBy = passedByAfter(before, after, i, kind),
     !.g.obstacles[i].tookShield =
        @ \/ (before.g.player.shield > 0 /\ after.g.player.shield = 0),
     !.log = IF /\ kind = "none"
                /\ after.g.colorChangeOnNextObstacle
                     = before.g.colorChangeOnNextObstacle
             THEN @
             ELSE Append(@,
               [ kind |-> kind, otype |-> before.g.obstacles[i].type,
                 pre |-> Snap(before.g, before.g.obstacles[i]),
                 post |-> Snap(after.g, after.g.obstacles[i]),
                 saved |-> after.saves > before.saves,
                 by |-> passedByAfter(before, after, i, kind),
                 tookShield |-> before.g.obstacles[i].tookShield ])]

\* lines 658-767 for the obstacle at i, moved already
obstacleTurn(w, i, roll) ==
  noteTurn(w, rollUnlessReturned(collide(w, i, kindOf(w.g, i)), i, roll), i,
           kindOf(w.g, i))

\* lines 593-768: the body of obstacles.forEach for the obstacle at i
handleObstacle(w, i, currentSpeed, roll) ==
  obstacleTurn(moveObstacle(w, i, currentSpeed), i, roll)

RECURSIVE obstaclesForEach(_, _, _, _)
obstaclesForEach(w, i, currentSpeed, roll) ==
  IF i > Len(w.g.obstacles) THEN w
  ELSE obstaclesForEach(handleObstacle(w, i, currentSpeed, roll), i + 1,
                        currentSpeed, roll)

\* the collection without the cap of line 850 on the lives
handlePowerUpUncapped(g, i, currentSpeed) ==
  LET g0 == [g EXCEPT !.powerUps[i].x = @ - currentSpeed]
  IN IF checkPowerUpCollision(g0.player, g0.powerUps[i])
        /\ ~g0.powerUps[i].collected
     THEN [g0 EXCEPT !.powerUps[i].collected = TRUE,
                     !.player.lives =
                        IF g0.powerUps[i].type = "life" THEN @ + 1 ELSE @]
     ELSE g0

\* the collection with a shield that adds to the time left
handlePowerUpStacks(g, i, currentSpeed) ==
  LET g0 == [g EXCEPT !.powerUps[i].x = @ - currentSpeed]
      powerUp == g0.powerUps[i]
      player == g0.player
  IN IF checkPowerUpCollision(player, powerUp) /\ ~powerUp.collected
     THEN LET g1 == createParticles([g0 EXCEPT !.powerUps[i].collected = TRUE], 15)
          IN CASE powerUp.type = "shield" ->
                    [g1 EXCEPT !.player.shield = @ + DURATION]
               [] powerUp.type = "bonus" -> [g1 EXCEPT !.score = @ + 50]
               [] powerUp.type = "life" ->
                    IF player.lives < MAX_LIVES
                    THEN [g1 EXCEPT !.player.lives = @ + 1] ELSE g1
               [] powerUp.type = "jumpBoost" ->
                    [g1 EXCEPT !.player.jumpBoost = DURATION]
     ELSE g0

\* lines 771-860: the body of powerUps.forEach for the power-up at i
handlePowerUp(g, i, currentSpeed) ==
  LET g0 == [g EXCEPT !.powerUps[i].x = @ - currentSpeed]
      powerUp == g0.powerUps[i]
      player == g0.player
  IN IF checkPowerUpCollision(player, powerUp) /\ ~powerUp.collected
     THEN LET g1 == createParticles([g0 EXCEPT !.powerUps[i].collected = TRUE], 15)
          IN CASE powerUp.type = "shield" -> [g1 EXCEPT !.player.shield = DURATION]
               [] powerUp.type = "bonus" -> [g1 EXCEPT !.score = @ + 50]
               [] powerUp.type = "life" ->
                    IF player.lives < MAX_LIVES
                    THEN [g1 EXCEPT !.player.lives = @ + 1] ELSE g1
               [] powerUp.type = "jumpBoost" ->
                    [g1 EXCEPT !.player.jumpBoost = DURATION]
     ELSE g0

\* the turn of a power-up that changes its collected flag or anything of
\* the player, the score or the combo is noted in the log as a turn of
\* kind "powerUp": otype is the power-up's type, and passed stands for its
\* collected flag
notePowerUp(before, g, i) ==
  [before EXCEPT
     !.g = g,
     !.log = IF Snap(g, [passed |-> g.powerUps[i].collected])
                  = Snap(before.g, [passed |-> before.g.powerUps[i].collected])
             THEN @
             ELSE Append(@,
               [ kind |-> "powerUp", otype |-> g.powerUps[i].type,
                 pre |-> Snap(before.g,
                              [passed |-> before.g.powerUps[i].collected]),
                 post |-> Snap(g, [passed |-> g.powerUps[i].collected]),
                 saved |-> FALSE, by |-> "none", tookShield |-> FALSE ])]

RECURSIVE powerUpsForEach(_, _, _)
powerUpsForEach(w, i, currentSpeed) ==
  IF i > Len(w.g.powerUps) THEN w
  ELSE powerUpsForEach(notePowerUp(w, handlePowerUp(w.g, i, currentSpeed), i),
                       i + 1, currentSpeed)

RemoveAt(s, k) == SubSeq(s, 1, k - 1) \o SubSeq(s, k + 1, Len(s))

\* lines 863-880: particles.forEach((particle, index) => ...) with
\* particles.splice(index, 1) inside: forEach visits the indexes 0..n-1 of
\* the array as it is when each index comes up, so the particle that moves
\* into a spliced place is not visited in this run.
\* The visits of the indexes index..n: those of the first half, then those
\* of the second half.
visitParticle(particles, index) ==
  IF index > Len(particles) THEN particles
  ELSE IF particles[index] - 1 <= 0 THEN RemoveAt(particles, index)
  ELSE [particles EXCEPT ![index] = @ - 1]

RECURSIVE particlesForEach(_, _, _)
particlesForEach(particles, index, n) ==
  IF index > n \/ index > Len(particles) THEN particles
  ELSE IF index = n THEN visitParticle(particles, index)
  ELSE particlesForEach(particlesForEach(particles, index, (index + n) \div 2),
                        (index + n) \div 2 + 1, n)

\* lines 883-888
pruneOffscreen(g) ==
  LET keepObstacle(obs) == obs.x > px(-OBSTACLE_WIDTH)
      keepPowerUp(powerUp) == powerUp.x > px(-30) /\ ~powerUp.collected
  IN [g EXCEPT !.obstacles = SelectSeq(@, keepObstacle),
               !.powerUps = SelectSeq(@, keepPowerUp)]

\* lines 581-587: Math.min(BASE_SPEED * (1 + floor(score/100) * 0.08),
\* BASE_SPEED * 2.5)
currentSpeedOf(score) ==
  Min((px(BASE_SPEED) * (100 + (score \div 100) * SPEED_INCREASE_RATE)) \div 100,
      (px(BASE_SPEED) * MAX_SPEED_MULTIPLIER) \div 10)

\* line 590
levelOf(score) == (score \div 100) + 1

\* lines 527-538: gravity and the ground
physics(g) ==
  LET vy == g.player.vy + GRAVITY
      y == g.player.y + vy
      groundY == canvas.height - px(FLOOR_HEIGHT) - g.player.radius
  IN IF y > groundY
     THEN [g EXCEPT !.player.y = groundY, !.player.vy = 0,
                    !.player.isJumping = FALSE, !.player.jumpCount = 0]
     ELSE [g EXCEPT !.player.y = y, !.player.vy = vy]

\* lines 203-227
spawnObstacle(g, color, type) ==
  [g EXCEPT !.obstacles = Append(@,
     [ x |-> canvas.width, color |-> color, passed |-> FALSE, type |-> type,
       colorChanged |-> FALSE, scored |-> 0, everPassed |-> FALSE,
       passedBy |-> "none", tookShield |-> FALSE ])]

\* lines 230-253
spawnPowerUp(g, type) ==
  [g EXCEPT !.powerUps = Append(@,
     [ x |-> canvas.width, y |-> px(POWERUP_Y), type |-> type,
       collected |-> FALSE ])]

\* lines 891-898
spawnDue(w) == w.timers.spawn + 1 > SPAWN_INTERVAL - w.g.level * 2

obstacleSpawnStep(w, color, type) ==
  IF spawnDue(w)
  THEN [w EXCEPT !.g = spawnObstacle(@, color, type), !.timers.spawn = 0]
  ELSE [w EXCEPT !.timers.spawn = @ + 1]

\* lines 901-908; chance is the outcome of Math.random() < SPAWN_CHANCE
powerUpDue(w) == w.timers.powerUpSpawn + 1 > POWERUP_SPAWN_AFTER

powerUpSpawnStep(w, chance, type) ==
  IF powerUpDue(w) /\ chance
  THEN [w EXCEPT !.g = spawnPowerUp(@, type), !.timers.powerUpSpawn = 0]
  ELSE [w EXCEPT !.timers.powerUpSpawn = @ + 1]

\* lines 911-920
changeColor(g, newColor) ==
  IF g.colorChangeOnNextObstacle
  THEN [createParticles([g EXCEPT !.player.color = newColor], 6)
          EXCEPT !.colorChangeOnNextObstacle = FALSE]
  ELSE g

\* lines 923-925
decrementTimers(g) ==
  [g EXCEPT !.player.shield = IF @ > 0 THEN @ - 1 ELSE @,
            !.player.jumpBoost = IF @ > 0 THEN @ - 1 ELSE @,
            !.player.invincible = IF @ > 0 THEN @ - 1 ELSE @]

\* lines 928-932
comboTimerStep(g) ==
  IF g.comboTimer > 0 THEN [g EXCEPT !.comboTimer = @ - 1]
  ELSE [g EXCEPT !.combo = 0]

\* lines 984-986
continueLoop(w) ==
  IF ~w.g.isGameOver THEN [w EXCEPT !.raf = requestAnimationFrame(@)] ELSE w

\* lines 363-366: backgroundOffset += 0.5
moveBackground(g) ==
  LET offset == g.backgroundOffset + px(5) \div 10
  IN [g EXCEPT !.backgroundOffset = IF offset > canvas.width THEN 0 ELSE offset]

\* line 590
setLevel(g) == [g EXCEPT !.level = levelOf(g.score)]

\* lines 526-768: physics, level, and the obstacle loop
simulateObstacles(w, roll) ==
  obstaclesForEach([w EXCEPT !.g = setLevel(physics(@))], 1,
                   currentSpeedOf(w.g.score), roll)

\* the particle update with the splice of line 878 on the obstacles
updateParticlesSpliceObstacles(g) ==
  [g EXCEPT !.particles = particlesForEach(@, 1, Len(@)),
            !.obstacles = IF \E k \in 1..Len(g.particles) : g.particles[k] <= 1
                          THEN SubSeq(@, 2, Len(@)) ELSE @]

\* lines 863-880
updateParticles(g) ==
  [g EXCEPT !.particles = particlesForEach(@, 1, Len(@))]

\* lines 770-888: power-ups, particles, pruning (the speed is the one
\* computed before the obstacle loop, from the score the tick began with)
simulateRest(w, currentSpeed) ==
  [powerUpsForEach(w, 1, currentSpeed) EXCEPT
     !.g = pruneOffscreen(updateParticles(@))]

\* lines 910-932: colour change, timers, combo timer
endOfTick(g, newColor) ==
  comboTimerStep(decrementTimers(changeColor(g, newColor)))

\* ------------------------------------------------------------- gameLoop
\* the title branch, lines 450-523
titleFrame(e) ==
  [ gameState |-> moveBackground(e.gameState), timers |-> e.timers,
    raf |-> requestAnimationFrame(TakeFrame(e.raf)),
    timeouts |-> e.timeouts, storage |-> e.storage, log |-> <<>> ]

\* the engine during a gameLoop run
running(e) ==
  [ g |-> moveBackground(e.gameState), timers |-> e.timers,
    raf |-> TakeFrame(e.raf), timeouts |-> e.timeouts,
    storage |-> e.storage, saves |-> 0, returned |-> FALSE, log |-> <<>> ]

\* lines 910-932
finishTick(w, newColor) == [w EXCEPT !.g = endOfTick(@, newColor)]

ran(w) ==
  [ gameState |-> w.g, timers |-> w.timers, raf |-> w.raf,
    timeouts |-> w.timeouts, storage |-> w.storage, log |-> w.log ]

\* lines 526-986
playFrame(e, in) ==
  ran(continueLoop(finishTick(
        powerUpSpawnStep(
          obstacleSpawnStep(
            simulateRest(simulateObstacles(running(e), in.roll),
                         currentSpeedOf(e.gameState.score)),
            in.color, in.type),
          in.chance, in.powerUp),
        in.newColor)))

\* One run of gameLoop on the engine e = [gameState, timers, raf, timeouts,
\* storage], taken off the frame queue.  in holds the outcomes of the
\* Math.random() calls of the run: roll (the colour roll), color and type
\* (spawnObstacle), chance and powerUp (the power-up spawn), newColor (the
\* colour change).
gameLoop(e, in) ==
  IF ~e.gameState.gameStarted THEN titleFrame(e) ELSE playFrame(e, in)

\* the outcomes Math.random() can have in a run of gameLoop from e; an
\* outcome that the run does not read is held at one value
RollChoices(g) ==
  IF g.gameStarted /\ Len(g.obstacles) > 0 THEN BOOLEAN ELSE {FALSE}

SpawnChoices(e) ==
  IF /\ e.gameState.gameStarted
     /\ e.timers.spawn + 1 > SPAWN_INTERVAL - levelOf(e.gameState.score) * 2
  THEN [color : COLORS, type : ObstacleTypes]
  ELSE {[color |-> 1, type |-> "normal"]}

PowerUpChoices(e) ==
  IF e.gameState.gameStarted /\ e.timers.powerUpSpawn + 1 > POWERUP_SPAWN_AFTER
  THEN [chance : {TRUE}, powerUp : PowerUpTypes]
         \cup {[chance |-> FALSE, powerUp |-> "shield"]}
  ELSE {[chance |-> FALSE, powerUp |-> "shield"]}

\* the colour change drawn from the whole palette
ColorChoicesUnfiltered(g, roll) ==
  IF g.gameStarted /\ (g.colorChangeOnNextObstacle \/ roll)
  THEN COLORS
  ELSE {g.player.color}

\* line 914: availableColors, the palette without the player's colour
ColorChoices(g, roll) ==
  IF g.gameStarted /\ (g.colorChangeOnNextObstacle \/ roll)
  THEN COLORS \ {g.player.color}
  ELSE {g.player.color}

Max(a, b) == IF a > b THEN a ELSE b

\* every pending timeout is one frame older
Age(ts) == [k \in 1..Len(ts) |-> ts[k] + 1]

\* the engine: the refs of the component, localStorage, and the history
\* that the claims read (log: the obstacle turns of the last gameLoop run;
\* last: the last step and the game state and timers it began with (g, t);
\* resets: resetGame calls so far; maxBest: the largest bestScore so far;
\* sinceLoss: how many frames of the running game after the frame of the
\* session's last life loss the next frame is, counted up to INVINCIBLE,
\* which also stands for a session without a life loss; last.s: sinceLoss
\* when the last step began)
Engine ==
  [ gameState |-> gameState, timers |-> timers, raf |-> raf,
    timeouts |-> timeouts, storage |-> storage, log |-> log, last |-> last,
    resets |-> resets, maxBest |-> maxBest, sinceLoss |-> sinceLoss ]

\* a life was lost in one of the turns
LifeLostIn(turns) ==
  \E k \in 1..Len(turns) : turns[k].post.lives < turns[k].pre.lives

sinceLossAfter(e, r) ==
  IF ~e.gameState.gameStarted \/ e.gameState.isGameOver THEN e.sinceLoss
  ELSE IF LifeLostIn(r.log) THEN 1
  ELSE Min(e.sinceLoss + 1, INVINCIBLE)

\* what a gameLoop run r leaves of the engine e
afterFrame(e, r) ==
  [ gameState |-> r.gameState, timers |-> r.timers, raf |-> r.raf,
    timeouts |-> Age(r.timeouts), storage |-> r.storage, log |-> r.log,
    last |-> [op |-> "frame", g |-> e.gameState, t |-> e.timers,
              s |-> e.sinceLoss],
    resets |-> e.resets, maxBest |-> Max(e.maxBest, r.gameState.bestScore),
    sinceLoss |-> sinceLossAfter(e, r) ]

\* the display refreshes: the oldest pending frame request runs gameLoop
frame(e, in) == afterFrame(e, gameLoop(e, in))

\* Space, a touch or a click
jumpTrigger(e) ==
  [e EXCEPT !.gameState = handleJump(@), !.log = <<>>,
            !.last = [op |-> "jump", g |-> e.gameState, t |-> e.timers,
                      s |-> e.sinceLoss]]

\* resetGame: lines 197-200 (the timers are reset with the state)
resetTo(e, g) ==
  [e EXCEPT !.gameState = g, !.timers = InitialTimers, !.log = <<>>,
            !.resets = @ + 1, !.maxBest = Max(@, g.bestScore),
            !.sinceLoss = INVINCIBLE]

resetGame(e) == resetTo(e, createInitialGameState(e.storage))

\* a callback that requests the frame without the reset
deferredGameOverNoReset(e) ==
  [e EXCEPT !.raf = requestAnimationFrame(@),
            !.timeouts = Tail(@),
            !.last = [op |-> "timeout", g |-> e.gameState,
                      t |-> e.timers, s |-> e.sinceLoss]]

\* lines 723-729: the callback of setTimeout(..., 100) runs
deferredGameOver(e) ==
  [resetGame(e) EXCEPT !.raf = requestAnimationFrame(@),
                       !.timeouts = Tail(@),
                       !.last = [op |-> "timeout", g |-> e.gameState,
                                 t |-> e.timers, s |-> e.sinceLoss]]

\* lines 1045-1052: the cleanup of the effect
effectCleanup(e) == [e EXCEPT !.raf = cancelAnimationFrame(@)]

\* lines 996-1043: the effect runs (again)
effectSetup(e) ==
  [resetGame(e) EXCEPT !.raf = requestAnimationFrame(@),
                       !.last = [op |-> "effect", g |-> e.gameState,
                                 t |-> e.timers, s |-> e.sinceLoss]]

\* ----------------------------------------------------------------- actions
Becomes(e) ==
  /\ gameState' = e.gameState
  /\ timers' = e.timers
  /\ raf' = e.raf
  /\ timeouts' = e.timeouts
  /\ storage' = e.storage
  /\ log' = e.log
  /\ last' = e.last
  /\ resets' = e.resets
  /\ maxBest' = e.maxBest
  /\ sinceLoss' = e.sinceLoss

FrameInputs(e) ==
  UNION { UNION { { [ roll |-> roll, color |-> spawn.color, type |-> spawn.type,
                      chance |-> pu.chance, powerUp |-> pu.powerUp,
                      newColor |-> newColor ] :
                    newColor \in ColorChoices(e.gameState, roll) } :
                  roll \in RollChoices(e.gameState) } :
          <<spawn, pu>> \in SpawnChoices(e) \X PowerUpChoices(e) }

\* a frame request is pending (and no timeout is overdue)
FrameCanRun ==
  /\ raf.pending > 0
  /\ steps < MaxSteps
  /\ \A k \in 1..Len(timeouts) : timeouts[k] < TIMEOUT_FRAMES

Frame ==
  /\ FrameCanRun
  /\ \E in \in FrameInputs(Engine) : Becomes(frame(Engine, in))
  /\ steps' = steps + 1
  /\ UNCHANGED <<isMobile, canvas>>

JumpTrigger ==
  /\ Becomes(jumpTrigger(Engine))
  /\ UNCHANGED <<isMobile, canvas, steps>>

DeferredGameOver ==
  /\ Len(timeouts) > 0
  /\ Becomes(deferredGameOver(Engine))
  /\ UNCHANGED <<isMobile, canvas, steps>>

\* the window crosses the 768 px breakpoint: isMobile changes, the effect
\* is cleaned up and runs again with the canvas of the new window
Resize ==
  /\ resets < MaxResets
  /\ isMobile' = ~isMobile
  /\ canvas' = updateCanvasSize(~isMobile)
  /\ Becomes(effectSetup(effectCleanup(Engine)))
  /\ UNCHANGED steps

\* ------------------------------------------------------------ replayed runs
\* A scenario is a scripted player and scripted outcomes of Math.random(),
\* under which the engine runs from the constructed state up to a moment
\* the bounded search is to start from.  The run is made of the steps
\* above (jumpTrigger, frame, deferredGameOver), so every state it passes
\* through is a state of the program.
\*   colors, again: whether the obstacles are spawned in the player's colour,
\*     in the order of their spawning (the last entry goes for all later
\*     ones); again is for the sessions after a reset;
\*   types: the type of the spawned obstacles ("cycle": by the combo);
\*   jumps: for the obstacles in the order of their spawning, how many pixels
\*     from the left edge the obstacle is when the player jumps (0: the
\*     player does not jump for it);
\*   powerUp: the type of the power-ups spawned ("none": none is), which the
\*     player collects with a double jump;
\*   stop, n, session: the moment the run stops at.
Scenario(colors, again, types, jumps, powerUp, stop, n, session) ==
  [ colors |-> colors, again |-> again, types |-> types, jumps |-> jumps,
    powerUp |-> powerUp, stop |-> stop, n |-> n, session |-> session ]

Scenarios ==
  \* hit by every obstacle, down to the last life
  { Scenario(<<FALSE>>, <<FALSE>>, "normal", <<0>>, "none", "hit", lives, 0) :
      lives \in 1..3 }
  \cup
  \* through every obstacle, the combo growing
  { Scenario(<<TRUE>>, <<TRUE>>, "cycle", <<0>>, "none", "pass", combo, 0) :
      combo \in 0..6 }
  \cup
  \* a score is made and the lives are lost; the next session ends with a
  \* smaller, an equal or a larger score
  { Scenario(<<TRUE, TRUE, FALSE>>, again, "normal", <<0>>, "none", "hit", 1,
             session) :
      again \in {<<FALSE>>, <<TRUE, TRUE, FALSE>>, <<TRUE, TRUE, TRUE, FALSE>>},
      session \in 0..1 }
  \cup
  \* one obstacle passed, the later ones jumped over until the combo times out
  { Scenario(<<TRUE>>, <<TRUE>>, "normal", <<0, 142>>, "none", stop, 0, 0) :
      stop \in {"jumped", "expiry"} }
  \cup
  \* the same with tall obstacles, jumped over at the top of the jump
  { Scenario(<<TRUE>>, <<TRUE>>, "tall", <<0, 160>>, "none", "jumped", 0, 0) }
  \cup
  \* a shield is collected and an obstacle of another colour comes: the
  \* player runs into it, or jumps and comes down on it
  { Scenario(<<TRUE, TRUE, TRUE, FALSE>>, <<TRUE>>, "normal", jumps, "shield",
             stop, 0, 0) :
      <<jumps, stop>> \in { <<<<0>>, "shielded">>,
                            <<<<0, 0, 0, 154>>, "shieldedPassed">> } }
  \cup
  \* the player comes down on the first obstacle, goes through the second
  \* and meets the third while still invincible
  { Scenario(<<FALSE, TRUE, FALSE>>, <<TRUE>>, "normal", <<154, 0>>, "none",
             "ignored", 0, 0) }
  \cup
  \* the player jumps over an obstacle of another colour and comes down
  \* on it
  { Scenario(<<FALSE>>, <<FALSE>>, "normal", <<154>>, "none", "hitPassed",
             0, 0) }
  \cup
  \* a passed obstacle goes behind the player: the colour roll
  { Scenario(<<TRUE>>, <<TRUE>>, "normal", <<0>>, "none", "roll", 0, 0) }
  \cup
  \* an obstacle of the player's colour is jumped over and goes behind
  { Scenario(<<TRUE>>, <<TRUE>>, "normal", <<142>>, "none", "roll", 0, 0) }
  \cup
  \* a power-up is about to be collected, with all the lives or after a hit
  { Scenario(colors, <<TRUE>>, "normal", <<0>>, powerUp, "collect", 0, 0) :
      colors \in {<<TRUE>>, <<FALSE>>}, powerUp \in PowerUpTypes }
  \cup
  \* through every obstacle until the level has taken the spawn threshold
  \* of line 894 to 0: an obstacle is spawned in every frame
  { Scenario(<<TRUE>>, <<TRUE>>, "bonus", <<0>>, "none", "crowded", 0, 0) }
  \cup
  \* a life is lost, then the player goes through every obstacle until an
  \* obstacle is spawned in every frame; a second life is lost, and an
  \* obstacle of another colour is under the player when the invincibility
  \* runs out, with obstacles of the player's colour close behind it
  { Scenario(<<FALSE, TRUE>>, <<TRUE>>, "bonus", <<0>>, "none",
             "lateHit", 1, 0) }
  \cup
  \* a shield or a jump boost is about to be collected while the one
  \* collected before is still running
  { Scenario(<<TRUE>>, <<TRUE>>, "normal", <<0>>, powerUp, "recollect", 0, 0) :
      powerUp \in {"shield", "jumpBoost"} }
  \cup
  \* the jump boost is collected and the player is back on the ground
  { Scenario(<<TRUE>>, <<TRUE>>, "normal", <<0>>, "jumpBoost", "boosted", 0, 0) }

\* the entry of a scenario's list for the k-th spawned obstacle
Entry(list, k) == list[IF k < 1 THEN 1 ELSE IF k > Len(list) THEN Len(list) ELSE k]

\* in the scenario that stops at "lateHit", once an obstacle is spawned in
\* every frame: one obstacle of another colour takes the second life, and
\* the obstacles that reach the player before the invincibility of that
\* hit has run out are of another colour too
LateObstacle(sc, g) ==
  /\ sc.stop = "lateHit"
  /\ SPAWN_INTERVAL - g.level * 2 <= 0
  /\ \/ /\ g.player.lives = 2
        /\ \A i \in 1..Len(g.obstacles) :
             g.obstacles[i].color = g.player.color
     \/ /\ g.player.lives = 1
        /\ (g.player.invincible - 1) * currentSpeedOf(g.score)
             > canvas.width - g.player.x - g.player.radius

\* A run is the engine e and the number of obstacles spawned in its session.
\* the outcomes of Math.random() in the next frame of the scenario
InputOf(sc, run) ==
  LET g == run.e.gameState
      colors == IF run.e.resets = 0 THEN sc.colors ELSE sc.again
  IN [ roll |-> FALSE,
       color |-> IF Entry(colors, run.spawned + 1) /\ ~LateObstacle(sc, g)
                 THEN g.player.color
                 ELSE (g.player.color % NUM_COLORS) + 1,
       type |-> IF sc.types # "cycle" THEN sc.types
                ELSE IF g.combo % 3 = 0 THEN "normal"
                ELSE IF g.combo % 3 = 1 THEN "tall" ELSE "bonus",
       chance |-> sc.powerUp # "none",
       powerUp |-> IF sc.powerUp = "none" THEN "shield" ELSE sc.powerUp,
       newColor |-> g.player.color ]

\* whether the player of the scenario jumps before the next frame
JumpsNow(sc, run) ==
  LET g == run.e.gameState
      speed == currentSpeedOf(g.score)
      near(x, at) == x <= px(at) /\ x > px(at) - speed
      jumpAt(i) == Entry(sc.jumps, run.spawned - Len(g.obstacles) + i)
  IN \/ /\ g.player.jumpCount = 0
        /\ \E i \in 1..Len(g.obstacles) :
             jumpAt(i) > 0 /\ near(g.obstacles[i].x, jumpAt(i))
     \/ /\ sc.powerUp # "none"
        /\ \E i \in 1..Len(g.powerUps) :
             \/ g.player.jumpCount = 0 /\ near(g.powerUps[i].x, 211)
             \/ g.player.jumpCount = 1 /\ g.player.vy >= 0

\* the run after a frame that left the engine e
Framed(run, e) ==
  [ e |-> e,
    spawned |-> IF e.timers.spawn = 0 THEN run.spawned + 1 ELSE run.spawned ]

\* one step of the scenario
Step(sc, run) ==
  IF run.e.gameState.isGameOver
  THEN IF Len(run.e.timeouts) > 0
       THEN [e |-> deferredGameOver(run.e), spawned |-> 0] ELSE run
  ELSE IF ~run.e.gameState.gameStarted
  THEN [run EXCEPT !.e = jumpTrigger(@)]
  ELSE Framed(run, frame(IF JumpsNow(sc, run) THEN jumpTrigger(run.e)
                          ELSE run.e,
                         InputOf(sc, run)))

\* the obstacle turns that the next frame would have without a jump
NextTurns(sc, run) ==
  IF run.e.gameState.gameStarted /\ ~run.e.gameState.isGameOver
  THEN frame(run.e, InputOf(sc, run)).log
  ELSE <<>>

\* whether the scenario's moment has come: g is the game state, turns the
\* obstacle turns of the next frame
StopAt(sc, g, turns) ==
  LET turn(kind, Cond(_)) ==
        \E k \in 1..Len(turns) : turns[k].kind = kind /\ Cond(turns[k].pre)
      plainHit(pre) == /\ pre.lives = sc.n /\ pre.invincible = 0
                       /\ pre.shield = 0 /\ ~pre.passed
      firstPass(pre) == pre.combo = sc.n /\ ~pre.passed
      shielded(pre) == pre.shield > 0 /\ pre.invincible = 0 /\ ~pre.passed
      shieldedPassed(pre) == pre.shield > 0 /\ pre.invincible = 0 /\ pre.passed
      ignored(pre) == pre.invincible > 0 /\ pre.combo > 0
      hitPassed(pre) == pre.shield = 0 /\ pre.invincible = 0 /\ pre.passed
      jumped(pre) == pre.combo > 0 /\ ~pre.passed
      collected(powerUp) ==
        checkPowerUpCollision(physics(g).player,
          [powerUp EXCEPT !.x = @ - currentSpeedOf(g.score)])
      behind(obstacle) ==
        /\ obstacle.passed
        /\ ~obstacle.colorChanged
        /\ obstacle.x - currentSpeedOf(g.score) + px(OBSTACLE_WIDTH)
             < g.player.x - g.player.radius - px(10)
  IN CASE sc.stop = "hit" -> turn("diff", plainHit)
       [] sc.stop = "pass" -> turn("same", firstPass)
       [] sc.stop = "shielded" -> turn("diff", shielded)
       [] sc.stop = "shieldedPassed" -> turn("diff", shieldedPassed)
       [] sc.stop = "ignored" -> turn("diff", ignored)
       [] sc.stop = "hitPassed" -> turn("diff", hitPassed)
       [] sc.stop = "jumped" -> turn("jump", jumped)
       [] sc.stop = "expiry" -> g.combo > 0 /\ g.comboTimer = 0
       [] sc.stop = "lateHit" ->
            turn("diff", plainHit) /\ SPAWN_INTERVAL - g.level * 2 <= 0
       [] sc.stop = "crowded" ->
            /\ SPAWN_INTERVAL - g.level * 2 <= 0
            /\ Len(g.obstacles) > 0
            /\ g.obstacles[Len(g.obstacles)].x = canvas.width
       [] sc.stop = "boosted" ->
            g.player.jumpBoost > 0 /\ g.player.jumpCount = 0
       [] sc.stop = "roll" ->
            \E i \in 1..Len(g.obstacles) : behind(g.obstacles[i])
       [] sc.stop = "collect" ->
            \E i \in 1..Len(g.powerUps) : collected(g.powerUps[i])
       [] sc.stop = "recollect" ->
            /\ g.player.shield > 0 \/ g.player.jumpBoost > 0
            /\ \E i \in 1..Len(g.powerUps) : collected(g.powerUps[i])
       [] OTHER -> FALSE

Stop(sc, run) ==
  /\ run.e.resets = sc.session
  /\ StopAt(sc, run.e.gameState, NextTurns(sc, run))

\* the run, in stretches of at most 32 steps
RECURSIVE Stretch(_, _, _)
Stretch(sc, run, k) ==
  IF k = 0 \/ Stop(sc, run) THEN run ELSE Stretch(sc, Step(sc, run), k - 1)

\* the run, in at most the given number of stretches: the first half of
\* them, then the others
RECURSIVE RunUntil(_, _, _)
RunUntil(sc, run, stretches) ==
  IF stretches = 0 \/ Stop(sc, run) THEN run
  ELSE IF stretches = 1 THEN Stretch(sc, run, 32)
  ELSE RunUntil(sc, RunUntil(sc, run, stretches \div 2),
                stretches - stretches \div 2)

\* the run of a scenario from the engine e
RunOf(sc, e) == RunUntil(sc, [e |-> e, spawned |-> 0], MaxReplay)

\* the frames counted as explored when the run of the scenario ends: one
\* frame is explored after a run that ends with an obstacle spawned in
\* every frame
StepsAfter(sc) ==
  IF sc.stop \in {"crowded", "lateHit"} THEN MaxSteps - 1 ELSE 0

Reaches(sc, run) ==
  Stop(sc, run) /\ Becomes(run.e) /\ steps' = StepsAfter(sc)

Replay ==
  /\ steps = 0
  /\ ~gameState.gameStarted
  /\ resets = 0
  /\ gameState.backgroundOffset = 0
  /\ \E sc \in Scenarios : Reaches(sc, RunOf(sc, Engine))
  /\ UNCHANGED <<isMobile, canvas>>

Next == Frame \/ JumpTrigger \/ DeferredGameOver \/ Resize \/ Replay

Spec == Init /\ [][Next]_vars

\* a callback passed to setTimeout runs in the end
SpecLive == Init /\ [][Next]_vars /\ WF_vars(DeferredGameOver)

\* ------------------------------------------------- checkCollision alone
\* checkCollision as a function of its arguments: a player and an obstacle
\* of each type are placed on the desktop or the phone canvas, the
\* obstacle left of, under and right of the player, the lower edge of the
\* player's disc above, at and below the obstacle's top, the 5 px of
\* clearance and the floor.
ObstacleXs ==
  { px(40), px(50) - 1, px(50), px(50) + 1, px(85), px(120) - 1, px(120),
    px(120) + 1, px(200) }

\* the lower edge of the disc, from the top of the obstacle
LowerEdges ==
  { px(-60), px(-5), -1, 0, 1, px(5) - 1, px(5), px(5) + 1, px(30),
    px(100) - 1, px(100), px(100) + 1, px(148) - 1, px(148), px(148) + 1 }

placed(g, type, x, lower) ==
  [spawnObstacle(
     [g EXCEPT !.gameStarted = TRUE,
               !.player.y = canvas.height - px(FLOOR_HEIGHT)
                              - obstacleHeightOf([type |-> type])
                              + lower - g.player.radius],
     g.player.color, type)
   EXCEPT !.obstacles[1].x = x]

InitCollision ==
  /\ storage = <<>>
  /\ isMobile \in BOOLEAN
  /\ canvas = updateCanvasSize(isMobile)
  /\ gameState \in
       { placed(createInitialGameState(<<>>), type, x, lower) :
           type \in ObstacleTypes, x \in ObstacleXs, lower \in LowerEdges }
  /\ timers = InitialTimers
  /\ raf = requestAnimationFrame([pending |-> 0, ref |-> 0])
  /\ timeouts = <<>>
  /\ log = <<>>
  /\ last = [op |-> "effect", g |-> createInitialGameState(<<>>),
             t |-> InitialTimers, s |-> INVINCIBLE]
  /\ steps = 0
  /\ resets = 0
  /\ maxBest = 0
  /\ sinceLoss = INVINCIBLE

\* line 658: the call, its result kept in log
Classify ==
  /\ last.op = "effect"
  /\ log' = <<checkCollision(gameState.player, gameState.obstacles[1], canvas)>>
  /\ last' = [last EXCEPT !.op = "checkCollision", !.g = gameState]
  /\ UNCHANGED <<gameState, timers, raf, timeouts, storage, isMobile, canvas,
                 steps, resets, maxBest, sinceLoss>>

SpecCollision == InitCollision /\ [][Classify]_vars

\* ------------------------------------------------------------ properties
PlayTick ==
  last.op = "frame" /\ last.g.gameStarted /\ ~last.g.isGameOver

Turns == {log[k] : k \in 1..Len(log)}

\* C1: in every state the engine reaches by jump triggers, frames,
\* power-up collections, game overs and resets, player.lives is in 0..3
\* and player.jumpCount is in 0..2.
C1_LivesAndJumpCountInRange ==
  /\ gameState.player.lives \in 0..3
  /\ gameState.player.jumpCount \in 0..2

\* the last life is lost in the middle of a double jump
C1_LastLifeLostInDoubleJump ==
  gameState.player.lives = 0 /\ gameState.player.jumpCount = 2

\* C2: an obstacle whose passed flag was seen true has it true for as long
\* as it is in the list, and an obstacle has added to the score in at most
\* one frame, whichever way it scored.
C2_PassedLatchesAndScoresOnce ==
  \A i \in 1..Len(gameState.obstacles) :
    /\ gameState.obstacles[i].everPassed => gameState.obstacles[i].passed
    /\ gameState.obstacles[i].scored <= 1

\* the player goes through a same-colour obstacle that has scored already
C2_ScoredObstacleMetAgain ==
  /\ \E t \in Turns : t.kind = "same" /\ t.pre.passed
  /\ \E i \in 1..Len(gameState.obstacles) : gameState.obstacles[i].scored = 1

\* C3: a frame of a running game takes the combo from a positive value to
\* 0 only if the combo timer was 0 when the frame began and no same-colour
\* pass scored in the frame, or a shield was consumed or a life lost in
\* the frame.
C3_ComboEndsByTimeoutOrDamage ==
  (PlayTick /\ last.g.combo > 0 /\ gameState.combo = 0) =>
    \/ /\ last.g.comboTimer = 0
       /\ ~\E t \in Turns : t.kind = "same" /\ ~t.pre.passed
    \/ \E t \in Turns :
         /\ t.kind = "diff"
         /\ \/ t.post.lives < t.pre.lives
            \/ t.pre.shield > 0 /\ t.post.shield = 0

\* the combo ends in a frame without a hit: it has timed out
C3_ComboTimedOut ==
  /\ PlayTick
  /\ last.g.combo > 0
  /\ gameState.combo = 0
  /\ \A t \in Turns : t.kind # "diff"

\* C4: when the player goes through an obstacle of another colour with 1
\* life, no shield and no invincibility, lives is 0 and isGameOver is true
\* after the obstacle's turn and after the frame, bestScore is the larger
\* of the earlier bestScore and the score, and the score is stored exactly
\* when it is larger than the earlier bestScore.
C4_LastLifeEndsTheGame ==
  \A t \in Turns :
    (t.kind = "diff" /\ t.pre.lives = 1 /\ t.pre.shield = 0
       /\ t.pre.invincible = 0) =>
      /\ t.post.lives = 0
      /\ t.post.isGameOver
      /\ gameState.isGameOver
      /\ t.post.bestScore = Max(t.pre.bestScore, t.pre.score)
      /\ t.saved <=> t.pre.score > t.pre.bestScore
      /\ t.saved => getBestScore(storage) = t.pre.score

\* the game ends with a score above a best score stored earlier
C4_GameOverWithNewBest ==
  \E t \in Turns :
    /\ t.kind = "diff" /\ t.pre.lives = 1 /\ t.pre.shield = 0
    /\ t.pre.invincible = 0
    /\ t.pre.bestScore > 0
    /\ t.saved

\* C5: from a state with isGameOver, a step either leaves the game state
\* and the spawn counters as they are (no frame runs, a jump trigger
\* changes nothing) or is a reset.
C5_GameOverIsFrozen ==
  [][gameState.isGameOver =>
       \/ gameState' = gameState /\ timers' = timers
       \/ resets' = resets + 1]_vars

\* a jump trigger has arrived after the game was over
C5_JumpTriggerAfterGameOver ==
  last.op = "jump" /\ last.g.isGameOver /\ gameState.isGameOver

\* C6: after a reset from a state with isGameOver, the game state is the
\* constructed Title state in every field but bestScore (3 lives, no
\* obstacles, power-ups or particles, score, combo and combo timer 0, level
\* 1, not started, not over), the spawn counters are 0, and bestScore is not
\* below any bestScore held before.
C6_ResetRestoresTitleKeepsBest ==
  (last.op \in {"timeout", "effect"} /\ last.g.isGameOver) =>
    /\ gameState = [createInitialGameState(<<>>) EXCEPT
                      !.bestScore = gameState.bestScore]
    /\ gameState.player.lives = 3
    /\ gameState.player.jumpCount = 0
    /\ gameState.player.shield = 0
    /\ gameState.player.invincible = 0
    /\ gameState.obstacles = <<>>
    /\ gameState.powerUps = <<>>
    /\ gameState.particles = <<>>
    /\ gameState.score = 0
    /\ gameState.combo = 0
    /\ gameState.comboTimer = 0
    /\ gameState.level = 1
    /\ ~gameState.gameStarted
    /\ ~gameState.isGameOver
    /\ timers.spawn = 0
    /\ timers.powerUpSpawn = 0
    /\ gameState.bestScore >= maxBest
    /\ gameState.bestScore >= last.g.bestScore

\* a reset after a game that ended with a best score
C6_ResetAfterGameOverWithBest ==
  /\ last.op \in {"timeout", "effect"}
  /\ last.g.isGameOver
  /\ last.g.bestScore > 0

\* C7: as the claim has it, a deferred game-over callback that is pending
\* when the effect is cleaned up never runs: the callback runs only in the
\* game-over state that scheduled it.  The code does not cancel it.
C7_DeferredCallbackRunsOnlyInItsGameOver ==
  last.op = "timeout" => last.g.isGameOver

\* C8: as the claim has it, at most one frame request is pending in every
\* state.  The code requests a second one when the deferred callback runs
\* after the effect has run again.
C8_AtMostOneFramePending ==
  raf.pending <= 1

\* C9: the turn of an obstacle not yet passed that the player goes through
\* in its own colour adds 10 (normal), 15 (tall) or 20 (bonus) plus
\* 5 * floor(c / 5) to the score, c being the combo before; the combo is
\* c + 1, the combo timer 600, the obstacle passed, lives and shield as
\* before.
C9_SameColourPassScore ==
  \A t \in Turns :
    (t.kind = "same" /\ ~t.pre.passed) =>
      /\ t.post.score = t.pre.score
           + (CASE t.otype = "normal" -> 10
                [] t.otype = "tall" -> 15
                [] t.otype = "bonus" -> 20)
           + 5 * (t.pre.combo \div 5)
      /\ t.post.combo = t.pre.combo + 1
      /\ t.post.comboTimer = 600
      /\ t.post.passed
      /\ t.post.lives = t.pre.lives
      /\ t.post.shield = t.pre.shield

\* a tall obstacle is passed with a combo of 5 or more
C9_TallPassWithComboBonus ==
  \E t \in Turns :
    t.kind = "same" /\ ~t.pre.passed /\ t.otype = "tall" /\ t.pre.combo >= 5

\* C10: the turn of an obstacle of another colour that the player goes
\* through with invincible 0 and a shield sets shield, combo and combo
\* timer to 0 and leaves lives as they are; it adds 1 to the score and marks
\* the obstacle passed if it was not passed, and adds nothing if it was.
C10_ShieldBreak ==
  \A t \in Turns :
    (t.kind = "diff" /\ t.pre.invincible = 0 /\ t.pre.shield > 0) =>
      /\ t.post.shield = 0
      /\ t.post.combo = 0
      /\ t.post.comboTimer = 0
      /\ t.post.lives = t.pre.lives
      /\ t.post.passed
      /\ t.post.score = IF t.pre.passed THEN t.pre.score ELSE t.pre.score + 1

\* the shield breaks on an obstacle that was jumped over before
C10_ShieldBreakOnPassedObstacle ==
  \E t \in Turns :
    /\ t.kind = "diff" /\ t.pre.invincible = 0 /\ t.pre.shield > 0
    /\ t.pre.passed
    /\ t.pre.combo > 0

\* C11: a jump trigger in a running game with jumpCount = 2 leaves the
\* whole game state as it is; with jumpCount < 2 it sets vy to the jump
\* impulse (-12, or -12 * 1.4 while jumpBoost > 0) and adds exactly 1 to
\* jumpCount.
C11_JumpTrigger ==
  (last.op = "jump" /\ last.g.gameStarted /\ ~last.g.isGameOver) =>
    IF last.g.player.jumpCount = 2
    THEN gameState = last.g
    ELSE /\ gameState.player.vy =
              IF last.g.player.jumpBoost > 0 THEN (px(-12) * 14) \div 10
              ELSE px(-12)
         /\ gameState.player.jumpCount = last.g.player.jumpCount + 1

\* a third jump trigger in the air, the boosted double jump made
C11_ThirdJumpWhileBoosted ==
  /\ last.op = "jump"
  /\ last.g.gameStarted /\ ~last.g.isGameOver
  /\ last.g.player.jumpCount = 2
  /\ last.g.player.jumpBoost > 0
  /\ last.g.player.vy = (px(-12) * 14) \div 10

\* C12: the collection of a life power-up leaves lives at 3 when they are
\* 3, and adds exactly 1 to lives when they are fewer.
C12_LifePowerUpCap ==
  \A t \in Turns :
    (t.kind = "powerUp" /\ t.otype = "life") =>
      t.post.lives = IF t.pre.lives = 3 THEN 3 ELSE t.pre.lives + 1

\* a life power-up is collected with all three lives
C12_LifeCollectedAtThree ==
  \E t \in Turns :
    t.kind = "powerUp" /\ t.otype = "life" /\ t.pre.lives = 3

\* C13: a frame that begins on the title screen changes nothing of the
\* game state but backgroundOffset and leaves the spawn counters as they
\* are (no physics, spawn, score or timer step, no obstacle turn); the
\* jump trigger on the title screen changes nothing but gameStarted: the
\* player's y, vy and jumpCount and the particles are as before.
C13_TitleFramesAndFirstTrigger ==
  /\ (last.op = "frame" /\ ~last.g.gameStarted) =>
       /\ gameState = [last.g EXCEPT
                         !.backgroundOffset = gameState.backgroundOffset]
       /\ timers = last.t
       /\ log = <<>>
  /\ (last.op = "jump" /\ ~last.g.gameStarted) =>
       /\ gameState = [last.g EXCEPT !.gameStarted = TRUE]
       /\ gameState.player.y = last.g.player.y
       /\ gameState.player.vy = last.g.player.vy
       /\ gameState.player.jumpCount = last.g.player.jumpCount
       /\ gameState.particles = last.g.particles
       /\ timers = last.t

\* the first jump trigger comes after frames on the title screen
C13_FirstTriggerAfterTitleFrames ==
  /\ last.op = "jump"
  /\ ~last.g.gameStarted
  /\ last.g.backgroundOffset > 0
  /\ gameState.gameStarted

\* the game state without its particles
Quiet(g) == [g EXCEPT !.particles = <<>>]

QuietEngine == [Engine EXCEPT !.gameState = Quiet(@)]

\* two engines that differ in the particles at most
SameGameplay(e1, e2) ==
  /\ Quiet(e1.gameState) = Quiet(e2.gameState)
  /\ e1.timers = e2.timers
  /\ e1.storage = e2.storage
  /\ e1.log = e2.log

\* the counts createParticles is called with
ParticleCounts == {5, 6, 8, 10, 12, 15}

\* C14: two runs with the same jump triggers and the same outcomes of
\* Math.random(), one of them without particles, agree after every step
\* on player, obstacles, power-ups, score, combo, combo timer, level, lives
\* and session phase.  Stated step by step from every state the game
\* reaches: a createParticles call changes nothing but the particles, and
\* a jump trigger or a frame (each frame that can run, for each outcome of
\* Math.random()) that begins without the particles ends in the same game
\* state, particles apart, as the one that begins with them.
C14_ParticlesDoNotReachGameplay ==
  /\ \A count \in ParticleCounts :
       Quiet(createParticles(gameState, count)) = Quiet(gameState)
  /\ SameGameplay(jumpTrigger(Engine), jumpTrigger(QuietEngine))
  /\ FrameCanRun =>
       \A in \in FrameInputs(Engine) :
         SameGameplay(frame(Engine, in), frame(QuietEngine, in))

\* a frame of a running game in which particles fade out, obstacles on
\* the screen and the next frame pending
C14_ParticlesFadeDuringPlay ==
  /\ PlayTick
  /\ Len(gameState.particles) > 0
  /\ Len(gameState.particles) < Len(last.g.particles)
  /\ Len(gameState.obstacles) > 0
  /\ ~gameState.isGameOver
  /\ raf.pending > 0

\* C15: as the claim has it, an obstacle that has consumed the shield
\* costs no life in a later frame in which the player is still inside
\* it.  The code gives no protection after the frame of the shield break.
C15_NoLifeLostToShieldedObstacle ==
  \A t \in Turns :
    (t.kind = "diff" /\ t.tookShield) => t.post.lives = t.pre.lives

\* C16: as the claim has it, the turn of an obstacle already marked passed
\* that the player goes through in another colour costs no life.  The
\* code does not read passed before it takes the life.
C16_NoLifeLostToPassedObstacle ==
  \A t \in Turns :
    (t.kind = "diff" /\ t.pre.passed) => t.post.lives = t.pre.lives

\* C17: as the claim has it, the turn of an obstacle sets
\* colorChangeOnNextObstacle only if the obstacle was marked passed by a
\* same-colour pass-through, never if a jump-over or a shield break marked
\* it.  The code rolls for every passed obstacle of the player's colour.
C17_ColourRollOnlyAfterSameColourPass ==
  \A t \in Turns :
    (~t.pre.flag /\ t.post.flag) => t.by = "same"

\* C18: as the claim has it, after every frame of a running game
\* comboTimer = 0 implies combo = 0.  The code zeroes the combo in the
\* frame after the one in which the timer reaches 0.
C18_ComboZeroWhenTimerZero ==
  PlayTick => (gameState.comboTimer = 0 => gameState.combo = 0)

\* C19: as the claim has it, after every frame of a running game level is
\* floor(score / 100) + 1 of the score the frame ends with.  The code
\* derives level before the frame's scoring.
C19_LevelFollowsScore ==
  PlayTick => gameState.level = (gameState.score \div 100) + 1

\* C20: as the claim has it, the spawn threshold has a floor: no obstacle
\* is spawned in a frame of a running game that follows a frame in which
\* one was spawned (an obstacle spawned in the frame before is the last of
\* the list and still at the right edge when the frame begins; a frame
\* that spawns leaves the spawn counter at 0).  The code has no floor.
C20_NoSpawnOnConsecutiveFrames ==
  (PlayTick /\ timers.spawn = 0) =>
    ~ /\ last.t.spawn = 0
      /\ Len(last.g.obstacles) > 0
      /\ last.g.obstacles[Len(last.g.obstacles)].x = canvas.width

\* the turns of the last frame in which a life was lost
LossTurns ==
  {k \in 1..Len(log) : log[k].post.lives < log[k].pre.lives}

\* C21: the turn of an obstacle of another colour that the player goes
\* through with invincible > 0 changes neither lives nor shield nor combo;
\* a frame of a running game takes at most one life; and a frame that
\* takes a life is at least 120 frames after the frame of the session's
\* life loss before it.
C21_NoDamageWhileInvincible ==
  /\ \A t \in Turns :
       (t.kind = "diff" /\ t.pre.invincible > 0) =>
         /\ t.post.lives = t.pre.lives
         /\ t.post.shield = t.pre.shield
         /\ t.post.combo = t.pre.combo
  /\ PlayTick => Cardinality(LossTurns) <= 1
  /\ (PlayTick /\ LossTurns # {}) => last.s >= 120

\* the second life of a session is lost
C21_SecondLifeLost ==
  /\ PlayTick
  /\ \E k \in LossTurns : log[k].pre.lives = 2
  /\ resets = 0

\* C22: as the claim has it, bestScore >= score in every state with
\* isGameOver.  The code goes on with the obstacles and power-ups of the
\* frame after the life that ended the game, and they add to the score.
C22_BestScoreCoversScoreInGameOver ==
  gameState.isGameOver => gameState.bestScore >= gameState.score

\* C23: the turn of an obstacle not yet passed that is classified as jump
\* while its horizontal span contains the player's x (lines 736-749) adds
\* exactly 1 to the score, 2 if the obstacle is tall, marks the obstacle
\* passed and leaves the combo count and the combo timer as they are.
C23_JumpOverScore ==
  \A t \in Turns :
    (t.kind = "jump" /\ ~t.pre.passed) =>
      /\ t.post.score = t.pre.score + (IF t.otype = "tall" THEN 2 ELSE 1)
      /\ t.post.passed
      /\ t.post.combo = t.pre.combo
      /\ t.post.comboTimer = t.pre.comboTimer

\* a tall obstacle is jumped over while a combo is running
C23_TallObstacleJumpedOverInCombo ==
  \E t \in Turns :
    /\ t.kind = "jump" /\ ~t.pre.passed /\ t.otype = "tall"
    /\ t.pre.combo > 0 /\ t.pre.comboTimer > 0
    /\ t.post.score = t.pre.score + 2

\* C24: a power-up has an effect only in a turn that begins with its
\* collected flag false and sets it, and no collected power-up is in the
\* list after the frame: every power-up has its effect at most once and
\* is removed in the frame of its collection.  The collection of a shield
\* sets player.shield to DURATION and that of a jump boost sets
\* player.jumpBoost to DURATION, whatever the value before, and both
\* timers are in 0..DURATION in every state.
C24_PowerUpOnceNoStacking ==
  /\ \A i \in 1..Len(gameState.powerUps) : ~gameState.powerUps[i].collected
  /\ \A t \in Turns :
       t.kind = "powerUp" =>
         /\ ~t.pre.passed /\ t.post.passed
         /\ t.otype = "shield" => t.post.shield = DURATION
         /\ t.otype = "jumpBoost" => t.post.jumpBoost = DURATION
  /\ gameState.player.shield \in 0..DURATION
  /\ gameState.player.jumpBoost \in 0..DURATION

\* a shield is collected while the shield collected before is running,
\* and it is out of the list after the frame
C24_ShieldCollectedWhileShielded ==
  /\ PlayTick
  /\ \E t \in Turns :
       /\ t.kind = "powerUp" /\ t.otype = "shield"
       /\ t.pre.shield > 0 /\ t.pre.shield < DURATION
  /\ Len(gameState.powerUps) < Len(last.g.powerUps)

\* C26: a frame of the running game ends with colorChangeOnNextObstacle
\* false.  If the flag was set in the frame (it is never set when a frame
\* begins), the player's colour after the frame is a palette colour other
\* than the colour before; if not, the colour is as before: one flag, one
\* colour change.
C26_ColourChangeAtEndOfTick ==
  /\ ~gameState.colorChangeOnNextObstacle
  /\ PlayTick =>
       IF \E t \in Turns : t.post.flag
       THEN gameState.player.color \in COLORS \ {last.g.player.color}
       ELSE gameState.player.color = last.g.player.color

\* the colour roll of an obstacle behind the player sets the flag, and the
\* frame ends with another colour and the flag cleared
C26_ColourChangedAfterRoll ==
  /\ PlayTick
  /\ \E t \in Turns : ~t.pre.flag /\ t.post.flag
  /\ gameState.player.color # last.g.player.color
  /\ ~gameState.colorChangeOnNextObstacle
  /\ ~gameState.isGameOver

\* C25: for the player and the obstacle checkCollision was called with:
\* without horizontal overlap there is no hit; with overlap and the lower
\* edge of the disc at or above obstacle top + 5 the result is jump, no
\* hit; with overlap, the lower edge below obstacle top + 5 and the disc's
\* vertical span meeting the band from the obstacle's top to the floor
\* the result is a hit; and a hit implies overlap and a lower edge
\* strictly below obstacle top + 5.  The top of a tall obstacle is
\* 1.8 * 60 = 108 px above the floor, that of the others 60 px.
C25_CollisionClasses ==
  last.op = "checkCollision" =>
    LET player == gameState.player
        obstacle == gameState.obstacles[1]
        bottom == canvas.height - px(20)
        top == bottom - (IF obstacle.type = "tall" THEN px(108) ELSE px(60))
        lower == player.y + player.radius
        upper == player.y - player.radius
        overlap == /\ obstacle.x < player.x + player.radius
                   /\ obstacle.x + px(30) > player.x - player.radius
    IN /\ ~overlap => ~log[1].hit
       /\ (overlap /\ lower <= top + px(5)) =>
            log[1] = [hit |-> FALSE, type |-> "jump"]
       /\ (overlap /\ lower > top + px(5) /\ upper < bottom) => log[1].hit
       /\ log[1].hit => (overlap /\ lower > top + px(5))

\* the disc reaches below the top of a tall obstacle under it, by less than
\* the 5 px of clearance: classified as jump
C25_GrazingDiscIsJump ==
  /\ last.op = "checkCollision"
  /\ gameState.obstacles[1].type = "tall"
  /\ gameState.obstacles[1].x = px(85)
  /\ gameState.player.y + gameState.player.radius
       = canvas.height - px(20) - px(108) + px(5) - 1
  /\ log[1] = [hit |-> FALSE, type |-> "jump"]

\* the state resetGame leaves, with one frame request pending
FreshTitle ==
  /\ gameState = createInitialGameState(storage)
  /\ ~gameState.gameStarted /\ ~gameState.isGameOver
  /\ timers = InitialTimers
  /\ raf.pending = 1

\* C27: with the deferred callback run in the end, every state with
\* isGameOver is followed by a state that resetGame has left (the
\* constructed Title state with the stored best score, the spawn counters
\* at 0) with exactly one frame request pending; the deferred callback
\* that runs in a state with isGameOver leaves such a state; and after a
\* reset a step takes the game from not started to started only if it is
\* a jump trigger.
C27_GameOverLeadsToFreshTitle ==
  /\ gameState.isGameOver ~> FreshTitle
  /\ [][(gameState.isGameOver /\ last'.op = "timeout") => FreshTitle']_vars
  /\ [][(resets > 0 /\ ~gameState.gameStarted /\ gameState'.gameStarted)
          => last'.op = "jump"]_vars

\* the deferred callback has reset a game that was over, and one frame
\* request is pending on the title screen
C27_CallbackResetAfterGameOver ==
  /\ last.op = "timeout"
  /\ last.g.isGameOver
  /\ FreshTitle

====
